---- MODULE Spec2Model ----
(***************************************************************************)
(* Model of src/Untitled2.py: the roulette-neighbours tool.                *)
(*                                                                         *)
(*   parse_input(input_str, default_neighbors)   text -> list of pairs     *)
(*   roulette_neighbors(number_neighbor_pairs)   pairs -> number -> list   *)
(*   main()                                      parse, resolve, render    *)
(*                                                                         *)
(* A Python str is a sequence of one-character strings, a Python list a    *)
(* sequence (1-based here, 0-based there), a dict a function whose DOMAIN  *)
(* is its key set.  Each loop iteration of the two functions is one step.  *)
(***************************************************************************)
EXTENDS Integers, Sequences, FiniteSets, TLC

VARIABLES
    entry,                  \* which function the outside world called
    pc,                     \* "idle", "parse_input", "roulette_neighbors", "done"
    input_str,              \* parse_input: argument
    default_neighbors,      \* parse_input: argument
    pairs,                  \* parse_input: input_str.split(',')
    i,                      \* parse_input: segments consumed by the for loop
    parsed,                 \* parse_input: the list being built
    number_neighbor_pairs,  \* roulette_neighbors: argument
    j,                      \* roulette_neighbors: pairs consumed by the for loop
    roulette_wheel,         \* roulette_neighbors: local list
    result,                 \* roulette_neighbors: local dict
    returned,               \* <<>> or <<value>>: what the outermost caller received
    error,                  \* <<>> or <<e>>: the ValueError that left the call
    table1,                 \* main: <<>> or <<highlighted cells>> of the first table
    table2,                 \* main: <<>> or <<highlighted cells>> of the second table
    st_error,               \* main: <<>> or <<e>>: the error shown by st.error
    memo                    \* history: <<>> or <<pairs, returned, error>> of a finished call

vars == <<entry, pc, input_str, default_neighbors, pairs, i, parsed,
          number_neighbor_pairs, j, roulette_wheel, result, returned, error,
          table1, table2, st_error, memo>>

-----------------------------------------------------------------------------
(* Bounds of the explored inputs *)

MaxLen == 5        \* longest input string enumerated over Chars
MaxPairs == 3      \* longest pair list enumerated over SmallPairs
MaxRadius == 19    \* largest radius of the single-pair calls
MaxRepeat == 2     \* longest pair list of the repeated-call specification

-----------------------------------------------------------------------------
(* Python str and int() *)

Whitespace == {" ", "\t"}
Digits == {"0", "1", "2", "3", "4", "5", "6", "7", "8", "9"}

DigitValue(c) ==
    CASE c = "0" -> 0 [] c = "1" -> 1 [] c = "2" -> 2 [] c = "3" -> 3
      [] c = "4" -> 4 [] c = "5" -> 5 [] c = "6" -> 6 [] c = "7" -> 7
      [] c = "8" -> 8 [] c = "9" -> 9

\* str.split(','): always at least one segment, empty segments kept
RECURSIVE SplitComma(_)
SplitComma(s) ==
    IF \A p \in 1..Len(s) : s[p] # ","
    THEN <<s>>
    ELSE LET p == CHOOSE q \in 1..Len(s) :
                      s[q] = "," /\ \A q2 \in 1..(q - 1) : s[q2] # ","
         IN  <<SubSeq(s, 1, p - 1)>> \o SplitComma(SubSeq(s, p + 1, Len(s)))

\* str.strip(): leading and trailing whitespace removed
RECURSIVE Strip(_)
Strip(s) ==
    IF s = <<>> THEN s
    ELSE IF s[1] \in Whitespace THEN Strip(Tail(s))
    ELSE IF s[Len(s)] \in Whitespace THEN Strip(SubSeq(s, 1, Len(s) - 1))
    ELSE s

\* str.split() with no separator: runs of whitespace separate, no empty tokens
RECURSIVE SplitWhitespace(_)
SplitWhitespace(s) ==
    IF s = <<>> THEN <<>>
    ELSE IF s[1] \in Whitespace THEN SplitWhitespace(Tail(s))
    ELSE LET stops == {q \in 1..Len(s) : s[q] \in Whitespace}
             e == IF stops = {} THEN Len(s) + 1
                  ELSE CHOOSE q \in stops : \A q2 \in stops : q <= q2
         IN  <<SubSeq(s, 1, e - 1)>> \o SplitWhitespace(SubSeq(s, e, Len(s)))

\* int(token) succeeds: optional sign, then digits, single underscores between digits
Unsigned(tok) ==
    IF tok # <<>> /\ tok[1] \in {"+", "-"} THEN Tail(tok) ELSE tok

IsInt(tok) ==
    LET b == Unsigned(Strip(tok))
    IN  /\ b # <<>>
        /\ \A p \in 1..Len(b) : b[p] \in Digits \cup {"_"}
        /\ b[1] \in Digits
        /\ b[Len(b)] \in Digits
        /\ \A p \in 1..(Len(b) - 1) : ~(b[p] = "_" /\ b[p + 1] = "_")

RECURSIVE Magnitude(_)
Magnitude(b) ==
    IF b = <<>> THEN 0
    ELSE IF b[Len(b)] = "_" THEN Magnitude(SubSeq(b, 1, Len(b) - 1))
    ELSE 10 * Magnitude(SubSeq(b, 1, Len(b) - 1)) + DigitValue(b[Len(b)])

\* the value of int(token), for a token on which it succeeds
IntOf(tok) ==
    LET t == Strip(tok)
    IN  IF t[1] = "-" THEN 0 - Magnitude(Unsigned(t)) ELSE Magnitude(Unsigned(t))

-----------------------------------------------------------------------------
(* roulette_neighbors: the pure parts *)

\* the literal list of lines 19-24
WheelLiteral ==
    << 0, 32, 15, 19, 4, 21, 2, 25, 17, 34, 6,
       27, 13, 36, 11, 30, 8, 23, 10, 5, 24,
       16, 33, 1, 20, 14, 31, 9, 22, 18, 29,
       7, 28, 12, 35, 3, 26 >>

\* mutant: the dict outlives the call (a mutable default, a module-level dict)
StaleResult == result

\* result = {}
FreshResult == <<>>

\* number in roulette_wheel
OnWheel(wheel, number) == \E p \in 1..Len(wheel) : wheel[p] = number

\* roulette_wheel.index(number): 0-based position of the first occurrence
IndexOf(wheel, number) ==
    (CHOOSE p \in 1..Len(wheel) :
        wheel[p] = number /\ \A q \in 1..(p - 1) : wheel[q] # number) - 1

\* mutant: the two checks in the other order
ValidateCountFirst(wheel, number, neighbor_count) ==
    IF neighbor_count < 0 THEN "NegativeNeighborCount"
    ELSE IF ~OnWheel(wheel, number) THEN "NumberOutOfRange"
    ELSE "ok"

\* the two checks at the head of the loop body, in their order
Validate(wheel, number, neighbor_count) ==
    IF ~OnWheel(wheel, number) THEN "NumberOutOfRange"
    ELSE IF neighbor_count < 0 THEN "NegativeNeighborCount"
    ELSE "ok"

\* mutant: range(-neighbor_count, neighbor_count), the last neighbour lost
NeighborsShort(wheel, number, neighbor_count) ==
    LET total_numbers == Len(wheel)
        index == IndexOf(wheel, number)
    IN  [k \in 1..(2 * neighbor_count) |->
            wheel[((index + (k - 1 - neighbor_count)) % total_numbers) + 1]]

\* mutant: the modulus one short, so that the last pocket is never reached
NeighborsModulus(wheel, number, neighbor_count) ==
    LET total_numbers == Len(wheel) - 1
        index == IndexOf(wheel, number)
    IN  [k \in 1..(2 * neighbor_count + 1) |->
            wheel[((index + (k - 1 - neighbor_count)) % total_numbers) + 1]]

\* [roulette_wheel[(index + i) % total_numbers] for i in range(-neighbor_count, neighbor_count + 1)]
Neighbors(wheel, number, neighbor_count) ==
    LET total_numbers == Len(wheel)
        index == IndexOf(wheel, number)
    IN  [k \in 1..(2 * neighbor_count + 1) |->
            wheel[((index + (k - 1 - neighbor_count)) % total_numbers) + 1]]

\* mutant: result.setdefault(number, neighbors), the first pair wins
StoreFirstWins(res, number, neighbors) ==
    [n \in (DOMAIN res) \cup {number} |-> IF n \in DOMAIN res THEN res[n] ELSE neighbors]

\* result[number] = neighbors
Store(res, number, neighbors) ==
    [n \in (DOMAIN res) \cup {number} |-> IF n = number THEN neighbors ELSE res[n]]

\* the ValueError of line 31 / line 33; its message embeds the number
ResolverError(kind, number) == [kind |-> kind, subject |-> number]

-----------------------------------------------------------------------------
(* parse_input: the pure parts *)

\* pair.strip().split()
Parts(pair) == SplitWhitespace(Strip(pair))

\* mutant: the message of the one-token branch pasted into the two-token branch
ClassifyPasted(parts) ==
    IF Len(parts) = 2
    THEN IF IsInt(parts[1]) /\ IsInt(parts[2]) THEN "pair" ELSE "InvalidSingleToken"
    ELSE IF Len(parts) = 1
    THEN IF IsInt(parts[1]) THEN "single" ELSE "InvalidSingleToken"
    ELSE "InvalidSegmentFormat"

\* which branch of the if / elif / else a segment takes, and how it leaves it
Classify(parts) ==
    IF Len(parts) = 2
    THEN IF IsInt(parts[1]) /\ IsInt(parts[2]) THEN "pair" ELSE "InvalidPairTokens"
    ELSE IF Len(parts) = 1
    THEN IF IsInt(parts[1]) THEN "single" ELSE "InvalidSingleToken"
    ELSE "InvalidSegmentFormat"

\* mutant: the default of the help text, 1, in place of the argument
PairOfFixedDefault(parts, default) ==
    IF Len(parts) = 2
    THEN <<IntOf(parts[1]), IntOf(parts[2])>>
    ELSE <<IntOf(parts[1]), 1>>

\* the tuple appended for a well-formed segment
PairOf(parts, default) ==
    IF Len(parts) = 2
    THEN <<IntOf(parts[1]), IntOf(parts[2])>>
    ELSE <<IntOf(parts[1]), default>>

\* the ValueError of line 67 / 73 / 75; its message embeds the raw segment
ParserError(kind, pair) == [kind |-> kind, subject |-> pair]

\* mutant: the return statement indented into the loop body
ParseDoneEarly == i >= 1

\* the for loop over the segments is exhausted
ParseDone == i = Len(pairs)

-----------------------------------------------------------------------------
(* main: the pure parts *)

\* the numeric cells of the display grid of lines 88-93
TableRows ==
    << <<5, 24, 16, 33, 1, 20, 14, 31, 9, 22, 18, 29, 7, 28, 12, 35, 3>>,
       <<10, 26>>,
       <<23>>,
       <<8, 30, 11, 36, 13, 27, 6, 34, 17, 25, 2, 21, 4, 19, 15, 32, 0>> >>

\* plot_roulette_table(numbers): the cells that get the highlight colour
PlotRouletteTable(numbers) ==
    {v \in UNION {{TableRows[r][c] : c \in 1..Len(TableRows[r])} : r \in 1..Len(TableRows)} :
        v \in numbers}

\* input_numbers = [number for number, _ in number_neighbor_pairs]
InputNumbers(nnp) == {nnp[k][1] : k \in 1..Len(nnp)}

\* mutant: the keys of the mapping in place of its values
NumbersToHighlightKeys(neighbors) == DOMAIN neighbors

\* extend over neighbors.values(), then list(set(...))
NumbersToHighlight(neighbors) ==
    UNION {{neighbors[n][k] : k \in 1..Len(neighbors[n])} : n \in DOMAIN neighbors}

\* st.slider(min_value=1, max_value=3, step=2)
SliderValues == {1, 3}

-----------------------------------------------------------------------------
(* The inputs explored *)

Chars == {"1", "3", "-", " ", ",", "a"}

Strings(n) == UNION {[1..k -> Chars] : k \in 0..n}

ExampleStrings ==
    { <<"3", " ", "3", ",", " ", "8", " ", "1", ",", " ", "1", "2">>,   \* "3 3, 8 1, 12"
      <<"a", "b", "c">>,                                                \* "abc"
      <<"3", " ", "3", " ", "3">>,                                      \* "3 3 3"
      <<"9", "9", " ", "1">>,                                           \* "99 1"
      <<"5", " ", "-", "1">>,                                           \* "5 -1"
      <<"3", " ", "3", ",", "3", " ", "0">>,                            \* "3 3,3 0"
      <<"\t", "+", "1", "_", "0", "\t", "0", "2", " ", ",", "7">>,      \* "\t+1_0\t02 ,7"
      <<"3", "7", ",", "x", " ", "1">>,                                 \* "37,x 1"
      <<"0", " ", "1", "8">> }                                          \* "0 18"

InputStrings == Strings(MaxLen) \cup ExampleStrings

DirectDefaults == {-1, 0, 1, 3}

SeqsUpTo(S, n) == UNION {[1..k -> S] : k \in 0..n}

TestNumbers == (-1..37) \cup {99}
SmallPairs == {0, 3, 99} \X {-1, 0, 1}

PairLists ==
    {<<p>> : p \in TestNumbers \X (-1..MaxRadius)} \cup SeqsUpTo(SmallPairs, MaxPairs)

RepeatPairs == {<<3, 1>>, <<3, 0>>, <<0, 1>>, <<99, 1>>, <<3, -1>>}
RepeatLists == SeqsUpTo(RepeatPairs, MaxRepeat)

-----------------------------------------------------------------------------
(* The state machine *)

Init ==
    /\ entry = "none"
    /\ pc = "idle"
    /\ input_str = <<>>
    /\ default_neighbors = 0
    /\ pairs = <<>>
    /\ i = 0
    /\ parsed = <<>>
    /\ number_neighbor_pairs = <<>>
    /\ j = 0
    /\ roulette_wheel = <<>>
    /\ result = <<>>
    /\ returned = <<>>
    /\ error = <<>>
    /\ table1 = <<>>
    /\ table2 = <<>>
    /\ st_error = <<>>
    /\ memo = <<>>

\* no call is in progress
Callable == pc = "idle"

NoOutcome ==
    /\ returned' = <<>>
    /\ error' = <<>>
    /\ table1' = <<>>
    /\ table2' = <<>>
    /\ st_error' = <<>>

NoParser ==
    /\ input_str' = <<>>
    /\ default_neighbors' = 0
    /\ pairs' = <<>>
    /\ i' = 0
    /\ parsed' = <<>>

NoResolver ==
    /\ number_neighbor_pairs' = <<>>
    /\ j' = 0
    /\ roulette_wheel' = <<>>
    /\ result' = <<>>

\* lines 57-58: entering parse_input
EnterParseInput(s, d) ==
    /\ input_str' = s
    /\ default_neighbors' = d
    /\ pairs' = SplitComma(s)
    /\ i' = 0
    /\ parsed' = <<>>
    /\ pc' = "parse_input"

\* lines 19-27: entering roulette_neighbors
EnterRouletteNeighbors(p) ==
    /\ number_neighbor_pairs' = p
    /\ roulette_wheel' = WheelLiteral
    /\ result' = FreshResult
    /\ j' = 0
    /\ pc' = "roulette_neighbors"

\* mutant: the error is noted and what was built so far is handed back
RaisePartial(e) ==
    /\ pc' = "done"
    /\ error' = <<e>>
    /\ returned' = IF pc = "parse_input" THEN <<parsed>> ELSE <<result>>
    /\ st_error' = IF entry = "main" THEN <<e>> ELSE <<>>
    /\ UNCHANGED <<table1, table2>>

\* a raise: the frames are left as they are, the caller gets no value;
\* under main the except clause of lines 149-150 shows the error
Raise(e) ==
    /\ pc' = "done"
    /\ error' = <<e>>
    /\ returned' = <<>>
    /\ st_error' = IF entry = "main" THEN <<e>> ELSE <<>>
    /\ UNCHANGED <<table1, table2>>

\* parse_input(s, d) called on its own
CallParseInput ==
    /\ Callable
    /\ \E s \in InputStrings, d \in DirectDefaults : EnterParseInput(s, d)
    /\ entry' = "parse_input"
    /\ NoResolver
    /\ NoOutcome
    /\ UNCHANGED memo

\* roulette_neighbors(p) called on its own
CallRouletteNeighbors ==
    /\ Callable
    /\ \E p \in PairLists : EnterRouletteNeighbors(p)
    /\ entry' = "roulette_neighbors"
    /\ NoParser
    /\ NoOutcome
    /\ UNCHANGED memo

\* main() with a non-empty text: lines 123-130
Main ==
    /\ Callable
    /\ \E user_input \in InputStrings, d \in SliderValues :
          /\ user_input # <<>>
          /\ EnterParseInput(user_input, d)
    /\ entry' = "main"
    /\ NoResolver
    /\ NoOutcome
    /\ UNCHANGED memo

\* main() with the empty text: line 127 is false, nothing is computed or shown
MainNoInput ==
    /\ Callable
    /\ entry' = "main"
    /\ pc' = "done"
    /\ NoParser
    /\ NoResolver
    /\ NoOutcome
    /\ UNCHANGED memo

ParserFrame == <<entry, input_str, default_neighbors, pairs>>
ResolverFrame == <<number_neighbor_pairs, j, roulette_wheel, result>>

\* one iteration of the loop of parse_input that appends a tuple
ParseAppend ==
    /\ pc = "parse_input"
    /\ i < Len(pairs)
    /\ LET parts == Parts(pairs[i + 1])
       IN  /\ Classify(parts) \in {"pair", "single"}
           /\ parsed' = Append(parsed, PairOf(parts, default_neighbors))
    /\ i' = i + 1
    /\ UNCHANGED <<pc, returned, error, table1, table2, st_error, memo>>
    /\ UNCHANGED ParserFrame
    /\ UNCHANGED ResolverFrame

\* one iteration of the loop of parse_input that raises
ParseRaise ==
    /\ pc = "parse_input"
    /\ i < Len(pairs)
    /\ LET pair == pairs[i + 1]
           kind == Classify(Parts(pair))
       IN  /\ kind \notin {"pair", "single"}
           /\ Raise(ParserError(kind, pair))
    /\ i' = i + 1
    /\ UNCHANGED <<parsed, memo>>
    /\ UNCHANGED ParserFrame
    /\ UNCHANGED ResolverFrame

\* line 76 when parse_input was called on its own
ParseReturn ==
    /\ pc = "parse_input"
    /\ entry = "parse_input"
    /\ ParseDone
    /\ pc' = "done"
    /\ returned' = <<parsed>>
    /\ UNCHANGED <<i, parsed, error, table1, table2, st_error, memo>>
    /\ UNCHANGED ParserFrame
    /\ UNCHANGED ResolverFrame

\* line 76 under main, then line 133: the list goes to roulette_neighbors
MainResolve ==
    /\ pc = "parse_input"
    /\ entry = "main"
    /\ ParseDone
    /\ EnterRouletteNeighbors(parsed)
    /\ UNCHANGED <<i, parsed, returned, error, table1, table2, st_error, memo>>
    /\ UNCHANGED ParserFrame

\* one iteration of the loop of roulette_neighbors that stores a list
ResolveStore ==
    /\ pc = "roulette_neighbors"
    /\ j < Len(number_neighbor_pairs)
    /\ LET number == number_neighbor_pairs[j + 1][1]
           neighbor_count == number_neighbor_pairs[j + 1][2]
       IN  /\ Validate(roulette_wheel, number, neighbor_count) = "ok"
           /\ result' = Store(result, number,
                              Neighbors(roulette_wheel, number, neighbor_count))
    /\ j' = j + 1
    /\ UNCHANGED <<pc, number_neighbor_pairs, roulette_wheel, i, parsed,
                   returned, error, table1, table2, st_error, memo>>
    /\ UNCHANGED ParserFrame

\* one iteration of the loop of roulette_neighbors that raises
ResolveRaise ==
    /\ pc = "roulette_neighbors"
    /\ j < Len(number_neighbor_pairs)
    /\ LET number == number_neighbor_pairs[j + 1][1]
           neighbor_count == number_neighbor_pairs[j + 1][2]
           kind == Validate(roulette_wheel, number, neighbor_count)
       IN  /\ kind # "ok"
           /\ Raise(ResolverError(kind, number))
    /\ j' = j + 1
    /\ UNCHANGED <<number_neighbor_pairs, roulette_wheel, result, i, parsed, memo>>
    /\ UNCHANGED ParserFrame

\* line 43 when roulette_neighbors was called on its own
ResolveReturn ==
    /\ pc = "roulette_neighbors"
    /\ entry = "roulette_neighbors"
    /\ j = Len(number_neighbor_pairs)
    /\ pc' = "done"
    /\ returned' = <<result>>
    /\ UNCHANGED <<i, parsed, error, table1, table2, st_error, memo>>
    /\ UNCHANGED ParserFrame
    /\ UNCHANGED ResolverFrame

\* line 43 under main, then lines 136-147: both tables are drawn
MainRender ==
    /\ pc = "roulette_neighbors"
    /\ entry = "main"
    /\ j = Len(number_neighbor_pairs)
    /\ pc' = "done"
    /\ table1' = <<PlotRouletteTable(InputNumbers(parsed))>>
    /\ table2' = <<PlotRouletteTable(NumbersToHighlight(result))>>
    /\ UNCHANGED <<i, parsed, returned, error, st_error, memo>>
    /\ UNCHANGED ParserFrame
    /\ UNCHANGED ResolverFrame

\* the outermost call is over: its frames and, under main, the script run are gone
Finish ==
    /\ pc = "done"
    /\ pc' = "idle"
    /\ entry' = "none"
    /\ NoParser
    /\ NoResolver
    /\ NoOutcome
    /\ UNCHANGED memo

Next ==
    \/ CallParseInput
    \/ CallRouletteNeighbors
    \/ Main
    \/ MainNoInput
    \/ ParseAppend
    \/ ParseRaise
    \/ ParseReturn
    \/ MainResolve
    \/ ResolveStore
    \/ ResolveRaise
    \/ ResolveReturn
    \/ MainRender
    \/ Finish

Spec == Init /\ [][Next]_vars

-----------------------------------------------------------------------------
(* Repeated calls of roulette_neighbors.  Nothing is reset between the calls  *)
(* here: whatever a call left in roulette_wheel, result, j stays there, and   *)
(* only the assignments of lines 19-27 stand between one call and the next.   *)

\* roulette_neighbors(p) called while the leftovers of the previous call remain;
\* history only: the outcome of one finished call may be kept in memo as the
\* next call starts
CallRepeat ==
    /\ pc \in {"idle", "done"}
    /\ \E p \in RepeatLists : EnterRouletteNeighbors(p)
    /\ entry' = "roulette_neighbors"
    /\ returned' = <<>>
    /\ error' = <<>>
    /\ \E keep \in BOOLEAN :
          memo' = IF pc = "done" /\ memo = <<>> /\ keep
                  THEN <<number_neighbor_pairs, returned, error>>
                  ELSE memo
    /\ UNCHANGED <<input_str, default_neighbors, pairs, i, parsed,
                   table1, table2, st_error>>

NextRepeat ==
    \/ CallRepeat
    \/ ResolveStore
    \/ ResolveRaise
    \/ ResolveReturn

SpecRepeat == Init /\ [][NextRepeat]_vars

-----------------------------------------------------------------------------
(* Vocabulary of the properties *)

ParserKinds == {"InvalidSegmentFormat", "InvalidPairTokens", "InvalidSingleToken"}
ResolverKinds == {"NumberOutOfRange", "NegativeNeighborCount"}

Done(e) == pc = "done" /\ entry = e

\* position (0-based) of a wheel number in the fixed sequence
WheelPosition(n) == CHOOSE p \in 0..36 : WheelLiteral[p + 1] = n

\* the cyclic slice of length 2r+1 centred on n
CyclicSlice(n, r) ==
    [k \in 1..(2 * r + 1) |-> WheelLiteral[((WheelPosition(n) - r + (k - 1)) % 37) + 1]]

Elements(list) == {list[k] : k \in 1..Len(list)}

\* number of maximal runs of non-whitespace characters in a segment
NumTokens(seg) ==
    Cardinality({p \in 1..Len(seg) :
        seg[p] \notin Whitespace /\ (p = 1 \/ seg[p - 1] \in Whitespace)})

\* the segment has 1 or 2 tokens, each an integer
WellFormed(seg) ==
    /\ NumTokens(seg) \in {1, 2}
    /\ \A t \in Elements(Parts(seg)) : IsInt(t)

\* the kind of error a malformed segment calls for
KindFor(seg) ==
    IF NumTokens(seg) = 2 THEN "InvalidPairTokens"
    ELSE IF NumTokens(seg) = 1 THEN "InvalidSingleToken"
    ELSE "InvalidSegmentFormat"

ValidPair(p) == p[1] \in 0..36 /\ p[2] >= 0

Segments == SplitComma(input_str)

\* the pair a well-formed segment denotes under default d
Denoted(seg, d) ==
    LET parts == Parts(seg)
    IN  <<IntOf(parts[1]), IF Len(parts) = 2 THEN IntOf(parts[2]) ELSE d>>

\* the resolver has been entered in the current call
ResolverEntered == roulette_wheel # <<>>

-----------------------------------------------------------------------------
(* C1 *)

\* C1: a call with the single valid pair (n, r) returns under n a list of
\* exactly 2r+1 entries, entry i (0-based) being wheel[(idx(n) - r + i) mod 37];
\* the middle entry is n, r = 0 gives [n], and (0, 1) gives [26, 0, 32].
C1_CyclicSlice ==
    (/\ Done("roulette_neighbors")
     /\ Len(number_neighbor_pairs) = 1
     /\ ValidPair(number_neighbor_pairs[1]))
    => LET n == number_neighbor_pairs[1][1]
           r == number_neighbor_pairs[1][2]
       IN  /\ error = <<>>
           /\ Len(returned) = 1
           /\ n \in DOMAIN returned[1]
           /\ LET list == returned[1][n]
              IN  /\ Len(list) = 2 * r + 1
                  /\ \A k \in 0..(2 * r) :
                        list[k + 1] = WheelLiteral[((WheelPosition(n) - r + k) % 37) + 1]
                  /\ list[r + 1] = n
                  /\ (r = 0 => list = <<n>>)
                  /\ (n = 0 /\ r = 1 => list = <<26, 0, 32>>)

C1_Witness ==
    /\ Done("roulette_neighbors")
    /\ number_neighbor_pairs = << <<0, 1>> >>
    /\ returned = << [n \in {0} |-> <<26, 0, 32>>] >>

-----------------------------------------------------------------------------
(* C2 *)

\* C2: for a list of valid pairs the returned mapping has exactly one key per
\* distinct number, and the value under a number is the list of the LAST pair
\* carrying it; [(3, 1), (3, 0)] gives {3: [3]}.
C2_LastPairWins ==
    (/\ Done("roulette_neighbors")
     /\ \A k \in 1..Len(number_neighbor_pairs) : ValidPair(number_neighbor_pairs[k]))
    => /\ Len(returned) = 1
       /\ DOMAIN returned[1] =
             {number_neighbor_pairs[k][1] : k \in 1..Len(number_neighbor_pairs)}
       /\ \A k \in 1..Len(number_neighbor_pairs) :
             (\A k2 \in (k + 1)..Len(number_neighbor_pairs) :
                 number_neighbor_pairs[k2][1] # number_neighbor_pairs[k][1])
             => returned[1][number_neighbor_pairs[k][1]] =
                    CyclicSlice(number_neighbor_pairs[k][1], number_neighbor_pairs[k][2])
       /\ (number_neighbor_pairs = << <<3, 1>>, <<3, 0>> >>
              => returned[1] = [n \in {3} |-> <<3>>])

C2_Witness ==
    /\ Done("roulette_neighbors")
    /\ number_neighbor_pairs = << <<3, 1>>, <<3, 0>> >>
    /\ returned = << [n \in {3} |-> <<3>>] >>

-----------------------------------------------------------------------------
(* C3 *)

\* C3: for the pair (number, radius) the resolver has just processed: a number
\* off the wheel raises NumberOutOfRange whatever the radius, a wheel number
\* with radius < 0 raises NegativeNeighborCount, a valid pair raises nothing.
C3_ResolverErrors ==
    (ResolverEntered /\ j >= 1)
    => LET number == number_neighbor_pairs[j][1]
           radius == number_neighbor_pairs[j][2]
       IN  /\ number \notin 0..36
              => error = << [kind |-> "NumberOutOfRange", subject |-> number] >>
           /\ (number \in 0..36 /\ radius < 0)
              => error = << [kind |-> "NegativeNeighborCount", subject |-> number] >>
           /\ (number \in 0..36 /\ radius >= 0) => error = <<>>
           /\ (number_neighbor_pairs = << <<99, 1>> >>
                 => error[1].kind = "NumberOutOfRange")
           /\ (number_neighbor_pairs = << <<5, -1>> >>
                 => error[1].kind = "NegativeNeighborCount")

C3_Witness ==
    /\ Done("roulette_neighbors")
    /\ number_neighbor_pairs = << <<99, -1>> >>
    /\ error = << [kind |-> "NumberOutOfRange", subject |-> 99] >>

-----------------------------------------------------------------------------
(* C4 *)

\* C4: when every comma-separated segment has 1 or 2 integer tokens,
\* parse_input returns exactly one pair per segment, in segment order:
\* (a, b) for 'a b', (a, default_neighbors) for 'a', whatever the default is;
\* "3 3, 8 1, 12" with default 1 gives [(3,3), (8,1), (12,1)].
C4_OnePairPerSegment ==
    (/\ Done("parse_input")
     /\ \A k \in 1..Len(Segments) : WellFormed(Segments[k]))
    => /\ error = <<>>
       /\ Len(returned) = 1
       /\ Len(returned[1]) = Len(Segments)
       /\ \A k \in 1..Len(Segments) :
             returned[1][k] = Denoted(Segments[k], default_neighbors)
       /\ (input_str = <<"3", " ", "3", ",", " ", "8", " ", "1", ",", " ", "1", "2">>
              => returned[1] = << <<3, 3>>, <<8, 1>>, <<12, default_neighbors>> >>)
       /\ (input_str = <<"-", "3", ",", "3", "3">>
              => returned[1] = << <<-3, default_neighbors>>, <<33, default_neighbors>> >>)

C4_Witness ==
    /\ Done("parse_input")
    /\ input_str = <<"3", " ", "3", ",", " ", "8", " ", "1", ",", " ", "1", "2">>
    /\ default_neighbors = 1
    /\ returned = << << <<3, 3>>, <<8, 1>>, <<12, 1>> >> >>

\* a repeated segment is kept twice and a negative default is passed through
C4_WitnessDuplicate ==
    /\ Done("parse_input")
    /\ default_neighbors = -1
    /\ returned = << << <<3, -1>>, <<3, -1>> >> >>

-----------------------------------------------------------------------------
(* C5 *)

\* C5: the segment parse_input has just examined raises exactly the error its
\* token count calls for: 0 or >= 3 tokens InvalidSegmentFormat, 2 tokens not
\* both integers InvalidPairTokens, 1 non-integer token InvalidSingleToken,
\* and a well-formed segment none; "abc" raises InvalidSingleToken and
\* "3 3 3" raises InvalidSegmentFormat.
C5_ParserErrors ==
    (pc \in {"parse_input", "roulette_neighbors", "done"} /\ i >= 1
       /\ ~(ResolverEntered /\ error # <<>>))
    => LET seg == pairs[i]
       IN  /\ pairs = Segments
           /\ WellFormed(seg) => error = <<>>
           /\ ~WellFormed(seg) =>
                 error = << [kind |-> KindFor(seg), subject |-> seg] >>
           /\ (input_str = <<"a", "b", "c">>
                 => error[1].kind = "InvalidSingleToken")
           /\ (input_str = <<"3", " ", "3", " ", "3">>
                 => error[1].kind = "InvalidSegmentFormat")
           /\ (input_str = <<"3", ",">> /\ i = 2
                 => error[1] = [kind |-> "InvalidSegmentFormat", subject |-> <<>>])
           /\ (input_str = <<"3", " ", "a">>
                 => error[1].kind = "InvalidPairTokens")

C5_Witness ==
    /\ Done("parse_input")
    /\ input_str = <<"3", ",">>
    /\ i = 2
    /\ error = << [kind |-> "InvalidSegmentFormat", subject |-> <<>>] >>

-----------------------------------------------------------------------------
(* C6 *)

FaultySegments == {k \in 1..Len(pairs) : ~WellFormed(pairs[k])}
FaultyPairs ==
    {k \in 1..Len(number_neighbor_pairs) : ~ValidPair(number_neighbor_pairs[k])}
Least(S) == CHOOSE k \in S : \A k2 \in S : k <= k2

\* C6: in both functions the items are examined in input order and the first
\* faulty one ends the call: the error is that item's and names it, no later
\* item has been examined, and the caller receives neither a list nor a
\* mapping (and main draws no table), even when earlier items were valid.
C6_FirstErrorAborts ==
    /\ (pc = "parse_input" => \A k \in 1..i : WellFormed(pairs[k]))
    /\ (pc = "roulette_neighbors" => \A k \in 1..j : ValidPair(number_neighbor_pairs[k]))
    /\ (pc = "done" /\ ~ResolverEntered /\ FaultySegments # {})
       => /\ i = Least(FaultySegments)
          /\ Len(parsed) = i - 1
          /\ Len(error) = 1
          /\ error[1].kind \in ParserKinds
          /\ error[1].subject = pairs[i]
          /\ returned = <<>> /\ table1 = <<>> /\ table2 = <<>>
    /\ (pc = "done" /\ ResolverEntered /\ FaultyPairs # {})
       => /\ j = Least(FaultyPairs)
          /\ Len(error) = 1
          /\ error[1].kind \in ResolverKinds
          /\ error[1].subject = number_neighbor_pairs[j][1]
          /\ returned = <<>> /\ table1 = <<>> /\ table2 = <<>>

\* a valid pair, then two faulty ones: the second pair's error, nothing returned
C6_Witness ==
    /\ Done("roulette_neighbors")
    /\ number_neighbor_pairs = << <<3, 1>>, <<99, 1>>, <<0, -1>> >>
    /\ j = 2
    /\ DOMAIN result = {3}
    /\ error = << [kind |-> "NumberOutOfRange", subject |-> 99] >>
    /\ returned = <<>>

\* the same in the parser: a good segment, then "a", then "-"
C6_WitnessParser ==
    /\ Done("parse_input")
    /\ input_str = <<"3", ",", "a", ",", "-">>
    /\ i = 2
    /\ parsed = << <<3, default_neighbors>> >>
    /\ error = << [kind |-> "InvalidSingleToken", subject |-> <<"a">>] >>
    /\ returned = <<>>

-----------------------------------------------------------------------------
(* C7 *)

\* C7: for every wheel number n, a radius of 18 returns exactly 37 entries in
\* which every number 0..36 occurs exactly once.
C7_FullWheel ==
    (/\ Done("roulette_neighbors")
     /\ Len(number_neighbor_pairs) = 1
     /\ number_neighbor_pairs[1][1] \in 0..36
     /\ number_neighbor_pairs[1][2] = 18)
    => LET list == returned[1][number_neighbor_pairs[1][1]]
       IN  /\ Len(list) = 37
           /\ \A v \in 0..36 : Cardinality({k \in 1..Len(list) : list[k] = v}) = 1

C7_Witness ==
    /\ Done("roulette_neighbors")
    /\ number_neighbor_pairs = << <<26, 18>> >>
    /\ Len(returned) = 1
    /\ Len(returned[1][26]) = 37
    /\ returned[1][26][1] = 10
    /\ returned[1][26][37] = 23

-----------------------------------------------------------------------------
(* C8 *)

\* C8: whatever calls came before, a call of roulette_neighbors with the pairs
\* of a remembered earlier call ends with the same mapping or the same error,
\* and the wheel a call reads is always the fixed sequence.
C8_SameOutcome ==
    /\ (memo # <<>> /\ pc = "done" /\ number_neighbor_pairs = memo[1])
       => (returned = memo[2] /\ error = memo[3])
    /\ (pc = "roulette_neighbors" => roulette_wheel = WheelLiteral)

\* a later call with the remembered pairs, returning the remembered mapping
C8_Witness ==
    /\ pc = "done"
    /\ memo # <<>>
    /\ memo[1] = << <<3, 1>>, <<0, 1>> >>
    /\ number_neighbor_pairs = memo[1]
    /\ Len(returned) = 1
    /\ returned = memo[2]

-----------------------------------------------------------------------------
(* C9 *)

\* C9 as stated: the highlight set of the second table is the union of the
\* neighbourhoods of ALL parsed pairs, those whose number is repeated later
\* included.
C9_UnionOfAllPairs ==
    (Done("main") /\ table2 # <<>>)
    => table2[1] =
          UNION {Elements(CyclicSlice(parsed[k][1], parsed[k][2])) : k \in 1..Len(parsed)}

\* C9 as amended: the highlight set of the second table is the union of the
\* lists held in the resolver's mapping, that is, for each distinct requested
\* number the neighbourhood of the LAST pair carrying it.
C9_UnionOfLastPairs ==
    (Done("main") /\ table2 # <<>>)
    => table2[1] =
          UNION {Elements(CyclicSlice(parsed[k][1], parsed[k][2])) :
                    k \in {k1 \in 1..Len(parsed) :
                             \A k2 \in (k1 + 1)..Len(parsed) : parsed[k2][1] # parsed[k1][1]}}

\* "3 3,3" with default 1: only the radius-1 neighbourhood of 3 is highlighted
C9_Witness ==
    /\ Done("main")
    /\ parsed = << <<3, 3>>, <<3, 1>> >>
    /\ table2 = << {35, 3, 26} >>

-----------------------------------------------------------------------------
(* C10 *)

\* C10: in a request handled by main the resolver starts only once every
\* segment has parsed; a malformed segment ends the request with its parser
\* error, even after a segment whose number is off the wheel or whose radius is
\* negative; a resolver error is shown only for an input all of whose segments
\* parse; and whenever an error is shown neither table is drawn.
C10_ParseThenResolve ==
    entry = "main"
    => /\ ResolverEntered
          => /\ i = Len(pairs)
             /\ pairs = Segments
             /\ \A k \in 1..Len(pairs) : WellFormed(pairs[k])
             /\ number_neighbor_pairs = parsed
       /\ (pc = "done" /\ input_str # <<>> /\ FaultySegments # {})
          => st_error = << [kind |-> KindFor(pairs[Least(FaultySegments)]),
                            subject |-> pairs[Least(FaultySegments)]] >>
       /\ (st_error # <<>> /\ st_error[1].kind \in ResolverKinds)
          => \A k \in 1..Len(Segments) : WellFormed(Segments[k])
       /\ st_error # <<>> => (table1 = <<>> /\ table2 = <<>>)
       /\ (pc = "done" /\ error # <<>>) => st_error = error

\* "-3,a": the first segment's number is off the wheel, the second is malformed
C10_Witness ==
    /\ Done("main")
    /\ input_str = <<"-", "3", ",", "a">>
    /\ st_error = << [kind |-> "InvalidSingleToken", subject |-> <<"a">>] >>
    /\ table1 = <<>>
    /\ table2 = <<>>

====
